---- MODULE Spec2Model ----
(***************************************************************************)
(* A model of jquery.jsonrpcclient.js: the JSON-RPC 2.0 client that uses a *)
(* WebSocket when one is available and HTTP POST ($.ajax) otherwise.       *)
(*                                                                         *)
(* JavaScript values are modelled as tagged records.  An object is a       *)
(* function from its own property names to values; `k in obj` also looks   *)
(* at the names every object inherits from Object.prototype.               *)
(***************************************************************************)
EXTENDS Integers, Sequences, FiniteSets, TLC

\* ---------------------------------------------------------------- bounds
\* Calls issued per client instance.
MaxId == 2
\* Requests a batch may hold / a socket may have been handed.
MaxBatch == 2
MaxSent == 2
\* $.ajax exchanges in flight at once.
MaxAjax == 1
\* Elements of a batch response array.
MaxResp == 2
\* Depth to which a continuation re-delivers the message that resolved it.
MaxReenter == 1
\* Requests sent over the socket of each of two instances.
MaxSentTwo == 1

\* The client instances a process may construct.
Clients == {1, 2}
Methods == {"a"}

\* ------------------------------------------------------- JavaScript values
Undefined == [t |-> "undefined"]
JNull == [t |-> "null"]
JNum(n) == [t |-> "num", n |-> n]
JStr(s) == [t |-> "str", s |-> s]
JArr(seq) == [t |-> "arr", v |-> seq]
JObj(o) == [t |-> "obj", o |-> o]
\* A function value: the continuation passed by client c's call number n.
Fn(c, n, k) == [t |-> "fn", c |-> c, id |-> n, k |-> k]

IsFunction(v) == v.t = "fn"

\* Names every object inherits (Object.prototype); one stands for all.
ProtoKeys == {"constructor"}

RECURSIVE PropertyKey(_), Join(_)

\* An element of an array as join writes it: nothing for null and
\* undefined, else its string.
ElementString(e) ==
  IF e.t \in {"null", "undefined"} THEN "" ELSE PropertyKey(e)

\* The string of an array: its elements joined by commas.
Join(seq) ==
  IF seq = <<>> THEN ""
  ELSE IF Len(seq) = 1 THEN ElementString(seq[1])
  ELSE ElementString(seq[1]) \o "," \o Join(Tail(seq))

\* ToPropertyKey: the name under which obj[v] looks, the string of v.
PropertyKey(v) ==
  CASE v.t = "num" -> ToString(v.n)
    [] v.t = "str" -> v.s
    [] v.t = "arr" -> Join(v.v)
    [] v.t = "obj" -> "[object Object]"
    [] v.t \in {"null", "undefined"} -> v.t

\* o.k for a record o of optional members.
Member(o, k) == IF k \in DOMAIN o THEN o[k] ELSE Undefined

\* `k in o`: own or inherited.
In(k, o) == k \in DOMAIN o \/ k \in ProtoKeys

\* ------------------------------------------------------------------ JSON
\* $.toJSON of a request object: its members in insertion order; a member
\* that is absent or undefined is left out.
Members(request) ==
  LET keys == <<"jsonrpc", "method", "params", "id">>
      Present(k) == k \in DOMAIN request /\ request[k] # Undefined
      kept == SelectSeq(keys, Present)
  IN [i \in 1..Len(kept) |-> <<kept[i], request[kept[i]]>>]

ToJSON(request) == [json |-> Members(request)]

\* $.toJSON of an array of request objects.
ToJSONArray(requests) ==
  [json |-> [i \in 1..Len(requests) |-> Members(requests[i])]]

\* A string is either JSON text (of a value) or something else.
NotJSON == [text |-> "hello"]
ParseFails(s) == "json" \notin DOMAIN s
ParseJSON(s) == s.json

\* ----------------------------------------------------------------- state
VARIABLES
  clients,       \* the instances constructed: new $.JsonRpcClient(options)
  options,       \* this.options of each instance
  window,        \* what the host provides: window.WebSocket, window.console
  current_id,    \* this._current_id
  batch,         \* this._batch: null, or the array of enqueued calls
  ws_socket,     \* this._ws_socket: null, or the WebSocket of the instance
  ws_callbacks,  \* $.JsonRpcClient.prototype._ws_callbacks
  ajax,          \* the $.ajax exchanges in flight
  cb_count,      \* how often each continuation passed to call has run
  last           \* what the last handler was given and what it did

vars == <<clients, options, window, current_id, batch, ws_socket,
          ws_callbacks, ajax, cb_count, last>>

EmptyObj == [k \in {} |-> Undefined]
Without(o, key) == [k \in DOMAIN o \ {key} |-> o[k]]
Put(o, key, val) == [k \in DOMAIN o \cup {key} |-> IF k = key THEN val ELSE o[k]]

Kinds == {"success", "error"}
Tokens == {Fn(c, n, k) : c \in Clients, n \in 1..MaxId, k \in Kinds}

\* The record of a handler run: the operation, its arguments, the
\* continuations it invoked (with their argument, in order), what it wrote
\* with console.log, what it handed to options.onmessage, and whether an
\* exception left it.
Ran(op, c, arg, invoked, logged, forwarded, thrown) ==
  [op |-> op, c |-> c, arg |-> arg, invoked |-> invoked, logged |-> logged,
   forwarded |-> forwarded, thrown |-> thrown]

Invocation(cb, arg) == [cb |-> cb, arg |-> arg]

\* cb_count after the invocations of one handler run.
Counted(count, invoked) ==
  [tk \in Tokens |->
     count[tk] + Cardinality({i \in 1..Len(invoked) : invoked[i].cb = tk})]

\* The options an instance may be constructed with (lines 37-42); getSocket
\* is left at its default, this._getSocket.
OnMessageFn == [t |-> "fn", c |-> 0, id |-> 0, k |-> "onmessage"]
Options(ajaxUrl, socketUrl, onmessage) ==
  [ajaxUrl |-> ajaxUrl, socketUrl |-> socketUrl, onmessage |-> onmessage]
AjaxOnly == Options(JStr("/rpc"), JNull, JNull)
NoBackend == Options(JNull, JNull, JNull)
Both == Options(JStr("/rpc"), JStr("ws://rpc"), OnMessageFn)
SocketOnly == Options(JNull, JStr("ws://rpc"), JNull)
OptionSets == {AjaxOnly, NoBackend, Both, SocketOnly}

\* The host: whether window.WebSocket and window.console exist.
Window(WebSocket, console) == [WebSocket |-> WebSocket, console |-> console]

\* The instances cs constructed, each with some options, in some host.  A
\* host without WebSocket is tried with an instance that names a socketUrl,
\* a host without console with an instance that names an ajaxUrl only.
InitWith(cs) ==
  /\ clients = cs
  /\ options \in [Clients -> OptionSets]
  /\ \A c \in Clients \ cs : options[c] = NoBackend
  /\ window \in {Window(TRUE, TRUE), Window(FALSE, TRUE), Window(TRUE, FALSE)}
  /\ ~window.WebSocket => \A c \in cs : options[c] = Both
  /\ ~window.console => \A c \in cs : options[c] = AjaxOnly
  /\ current_id = [c \in Clients |-> 1]
  /\ batch = [c \in Clients |-> JNull]
  /\ ws_socket = [c \in Clients |-> JNull]
  /\ ws_callbacks = EmptyObj
  /\ ajax = <<>>
  /\ cb_count = [tk \in Tokens |-> 0]
  /\ last = Ran("new", 0, Undefined, <<>>, <<>>, <<>>, FALSE)

\* One client instance.
Init == InitWith({1})

\* ----------------------------------------------------- envelope builder
\* The request object of call (lines 71-76) and of notify (141-145).
BuildRequest(method, id) ==
  [jsonrpc |-> JStr("2.0"), method |-> JStr(method), params |-> JArr(<<>>),
   id |-> JNum(id)]

BuildNotification(method) ==
  [jsonrpc |-> JStr("2.0"), method |-> JStr(method), params |-> JArr(<<>>)]

\* The counter left as it was.
NextId_Same(id) == id

\* this._current_id++ (line 75): the value left.
NextId(id) == id + 1

\* ---------------------------------------------------- transport selector
\* this.wsOnMessage of instance c (line 45).
WsOnMessageCb(c) == [t |-> "fn", c |-> c, id |-> 0, k |-> "wsOnMessage"]

\* new WebSocket(url): connecting, nothing bound.
NewWebSocket ==
  [t |-> "ws", readyState |-> 0, onopen |-> JNull, onmessage |-> JNull,
   sent |-> <<>>]

\* A new socket on every request, whatever socket is held.
GetSocket_Always(opts, win, sock, onmessage_cb) ==
  IF opts.socketUrl = JNull \/ ~win.WebSocket
  THEN [ret |-> JNull, ws_socket |-> sock]
  ELSE LET s == [NewWebSocket EXCEPT !.onmessage = onmessage_cb]
       IN [ret |-> s, ws_socket |-> s]

\* _getSocket (lines 283-297): the value returned and this._ws_socket.
GetSocket(opts, win, sock, onmessage_cb) ==
  IF opts.socketUrl = JNull \/ ~win.WebSocket
  THEN [ret |-> JNull, ws_socket |-> sock]
  ELSE IF sock = JNull \/ sock.readyState > 1
       THEN LET s == [NewWebSocket EXCEPT !.onmessage = onmessage_cb]
            IN [ret |-> s, ws_socket |-> s]
       ELSE [ret |-> sock, ws_socket |-> sock]

\* The function bound to socket.onopen (lines 313-316).
SendOnOpen(request_json) == [t |-> "fn", send |-> request_json]

\* _wsCall storing the callbacks of every request, with an id or without.
WsCall_Always(socket, cbs, request, success_cb, error_cb) ==
  [socket |->
     IF socket.readyState < 1
     THEN [socket EXCEPT !.onopen = SendOnOpen(ToJSON(request))]
     ELSE [socket EXCEPT !.sent = Append(@, ToJSON(request))],
   callbacks |->
     Put(cbs, PropertyKey(Member(request, "id")),
         [success_cb |-> success_cb, error_cb |-> error_cb])]

\* _wsCall with the two callbacks stored under each other's name.
WsCall_Swapped(socket, cbs, request, success_cb, error_cb) ==
  [socket |->
     IF socket.readyState < 1
     THEN [socket EXCEPT !.onopen = SendOnOpen(ToJSON(request))]
     ELSE [socket EXCEPT !.sent = Append(@, ToJSON(request))],
   callbacks |->
     IF In("id", request) /\ success_cb # Undefined
     THEN Put(cbs, PropertyKey(request.id),
              [success_cb |-> error_cb, error_cb |-> success_cb])
     ELSE cbs]

\* _wsCall (lines 305-327): the socket and _ws_callbacks it leaves.
WsCall(socket, cbs, request, success_cb, error_cb) ==
  LET request_json == ToJSON(request)
  IN [socket |->
        IF socket.readyState < 1
        THEN [socket EXCEPT !.onopen = SendOnOpen(request_json)]
        ELSE [socket EXCEPT !.sent = Append(@, request_json)],
      callbacks |->
        IF In("id", request) /\ success_cb # Undefined
        THEN Put(cbs, PropertyKey(request.id),
                 [success_cb |-> success_cb, error_cb |-> error_cb])
        ELSE cbs]

\* ------------------------------------------------------ call and notify
\* An open batch taken before the socket.
Path_BatchFirst(socket, b, ajaxUrl) ==
  IF b # JNull THEN "batch"
  ELSE IF socket # JNull THEN "ws"
  ELSE IF ajaxUrl = JNull THEN "throw"
  ELSE "ajax"

\* Which way call and notify go (lines 79-98, 148-163), given what
\* getSocket returned.
Path(socket, b, ajaxUrl) ==
  IF socket # JNull THEN "ws"
  ELSE IF b # JNull THEN "batch"
  ELSE IF ajaxUrl = JNull THEN "throw"
  ELSE "ajax"

\* The entry put in front.
Push_Front(b, entry) == JArr(<<entry>> \o b.v)

\* this._batch.push(entry) (lines 87-91, 156).
Push(b, entry) == JArr(Append(b.v, entry))

\* An exchange handed to $.ajax with its callbacks (lines 100-124, 165-171,
\* 232-244).
Exchange(c, type, url, data, success_cb, error_cb, handlers, all_done_cb) ==
  [c |-> c, type |-> type, url |-> url, data |-> data,
   success_cb |-> success_cb, error_cb |-> error_cb, handlers |-> handlers,
   all_done_cb |-> all_done_cb]

\* call and notify share their body but for the request and the callbacks.
Dispatch(op, c, request, success_cb, error_cb) ==
  LET got == GetSocket(options[c], window, ws_socket[c], WsOnMessageCb(c))
      path == Path(got.ret, batch[c], options[c].ajaxUrl)
      sent == WsCall(got.ret, ws_callbacks, request, success_cb, error_cb)
      entry == IF op = "call"
               THEN [request |-> request, success_cb |-> success_cb,
                     error_cb |-> error_cb]
               ELSE [request |-> request]
  IN /\ ws_socket' = [ws_socket EXCEPT ![c] = IF path = "ws" THEN sent.socket
                                               ELSE got.ws_socket]
     /\ ws_callbacks' = IF path = "ws" THEN sent.callbacks ELSE ws_callbacks
     /\ batch' = [batch EXCEPT ![c] = IF path = "batch" THEN Push(@, entry)
                                       ELSE @]
     /\ ajax' = IF path = "ajax"
                THEN Append(ajax, Exchange(c, op, options[c].ajaxUrl,
                                           ToJSON(request), success_cb,
                                           error_cb, EmptyObj, Undefined))
                ELSE ajax
     /\ last' = Ran(op, c, request, <<>>, <<>>, <<>>, path = "throw")
     /\ UNCHANGED <<clients, options, window, cb_count>>
     /\ ws_socket'[c] # JNull => Len(ws_socket'[c].sent) <= MaxSent
     /\ batch'[c] # JNull => Len(batch'[c].v) <= MaxBatch
     /\ Len(ajax') <= MaxAjax

Call(c, method, success_cb, error_cb) ==
  /\ c \in clients
  /\ current_id[c] <= MaxId
  /\ current_id' = [current_id EXCEPT ![c] = NextId(@)]
  /\ Dispatch("call", c, BuildRequest(method, current_id[c]), success_cb,
              error_cb)

Notify(c, method) ==
  /\ c \in clients
  /\ UNCHANGED current_id
  /\ Dispatch("notify", c, BuildNotification(method), Undefined, Undefined)

\* A new array also when a batch is open.
Started_Fresh(b) == JArr(<<>>)

\* this._batch after startBatch (lines 183-185).
Started(b) == IF b = JNull THEN JArr(<<>>) ELSE b

\* startBatch (lines 182-186).
StartBatch(c) ==
  /\ c \in clients
  /\ batch' = [batch EXCEPT ![c] = Started(@)]
  /\ last' = Ran("startBatch", c, Undefined, <<>>, <<>>, <<>>, FALSE)
  /\ UNCHANGED <<clients, options, window, current_id, ws_socket,
                 ws_callbacks, ajax, cb_count>>

\* --------------------------------------------------------------- endBatch
\* batch_request (lines 215-220): the requests, in the order of the batch.
BatchRequest(b) == [i \in 1..Len(b) |-> b[i].request]

\* handlers (lines 216-229): for every entry whose request has an id, the
\* callbacks of the entry under that id; a later entry replaces an earlier.
RECURSIVE Handlers(_)
Handlers(b) ==
  IF b = <<>> THEN EmptyObj
  ELSE LET call == b[Len(b)]
           rest == Handlers(SubSeq(b, 1, Len(b) - 1))
       IN IF In("id", call.request)
          THEN Put(rest, PropertyKey(call.request.id),
                   [success_cb |-> Member(call, "success_cb"),
                    error_cb |-> Member(call, "error_cb")])
          ELSE rest

\* Only the absent batch returns early.
NothingToSend_NullOnly(b) == b = JNull

\* The early returns of endBatch (lines 205, 212): no batch, or an empty one.
NothingToSend(b) == b = JNull \/ Len(b.v) = 0

\* The batch left open.
Flushed_Kept(b) == b

\* this._batch once endBatch has taken the batch (lines 205-209).
Flushed(b) == JNull

\* endBatch (lines 201-245).
EndBatch(c, all_done_cb, error_cb) ==
  /\ c \in clients
  /\ batch' = [batch EXCEPT ![c] = Flushed(@)]
  /\ ajax' = IF NothingToSend(batch[c])
             THEN ajax
             ELSE Append(ajax,
                         Exchange(c, "batch", options[c].ajaxUrl,
                                  ToJSONArray(BatchRequest(batch[c].v)),
                                  Undefined, error_cb, Handlers(batch[c].v),
                                  all_done_cb))
  /\ Len(ajax') <= MaxAjax
  /\ last' = Ran("endBatch", c, batch[c], <<>>, <<>>, <<>>, FALSE)
  /\ UNCHANGED <<clients, options, window, current_id, ws_socket,
                 ws_callbacks, cb_count>>

\* --------------------------------------------------------------- _batchCb
\* obj[key]: an own member, else what Object.prototype gives, else undefined.
Inherited == [t |-> "fn", k |-> "Object"]
Get(o, key) ==
  IF key \in DOMAIN o THEN o[key]
  ELSE IF key \in ProtoKeys THEN Inherited
  ELSE Undefined

\* What one statement did: the invocations, the console.log lines, and
\* whether it threw.
Did(invoked, logged, thrown) ==
  [invoked |-> invoked, logged |-> logged, thrown |-> thrown]

\* h.name(arg): a TypeError when h is undefined or h.name is no function.
CallMember(h, name, arg) ==
  IF h = Undefined THEN Did(<<>>, <<>>, TRUE)
  ELSE IF IsFunction(Member(h, name))
       THEN Did(<<Invocation(Member(h, name), arg)>>, <<>>, FALSE)
       ELSE Did(<<>>, <<>>, TRUE)

\* if ('console' in window) console.log(x)
ConsoleLog(console, x) ==
  Did(<<>>, IF console THEN <<x>> ELSE <<>>, FALSE)

\* The body of the loop of _batchCb (lines 255-269) for one response.
BatchCbElement(response, handlers, console) ==
  LET id == Member(response, "id")
  IN IF In("error", response)
     THEN IF id = JNull \/ In(PropertyKey(id), handlers)
          THEN ConsoleLog(console, response)
          ELSE CallMember(Get(handlers, PropertyKey(id)), "error_cb",
                          Member(response, "error"))
     ELSE IF In(PropertyKey(id), handlers) /\ console
          THEN ConsoleLog(TRUE, response)
          ELSE CallMember(Get(handlers, PropertyKey(id)), "success_cb",
                          Member(response, "result"))

Then(a, b) ==
  Did(a.invoked \o b.invoked, a.logged \o b.logged, b.thrown)

\* The loop of _batchCb from element i on; an exception ends it.
RECURSIVE BatchCbFrom(_, _, _, _)
BatchCbFrom(result, i, handlers, console) ==
  IF i > Len(result) THEN Did(<<>>, <<>>, FALSE)
  ELSE LET one == BatchCbElement(result[i], handlers, console)
       IN IF one.thrown THEN one
          ELSE Then(one, BatchCbFrom(result, i + 1, handlers, console))

\* _batchCb (lines 253-273).
BatchCb(result, handlers, all_done_cb, console) ==
  LET loop == BatchCbFrom(result, 1, handlers, console)
  IN IF loop.thrown THEN loop
     ELSE IF IsFunction(all_done_cb)
          THEN Then(loop, Did(<<Invocation(all_done_cb, result)>>, <<>>, FALSE))
          ELSE loop

\* ------------------------------------------------ $.ajax response handlers
\* cb(arg): a TypeError when cb is no function.
CallFn(cb, arg) ==
  IF IsFunction(cb) THEN Did(<<Invocation(cb, arg)>>, <<>>, FALSE)
  ELSE Did(<<>>, <<>>, TRUE)

\* success of call (lines 107-110).
CallSuccess(data, success_cb, error_cb) ==
  LET first == IF In("error", data) THEN CallFn(error_cb, Member(data, "error"))
               ELSE Did(<<>>, <<>>, FALSE)
  IN IF first.thrown THEN first
     ELSE Then(first, CallFn(success_cb, Member(data, "result")))

\* error of call (lines 113-123): what the try block did, then the catch.
\* Reading .error of null throws; of any other value it gives a member or
\* undefined.
CallError(responseText, error_cb, console) ==
  LET try == IF ParseFails(responseText) THEN Did(<<>>, <<>>, TRUE)
             ELSE LET response == ParseJSON(responseText)
                  IN Then(ConsoleLog(console, response),
                          IF response.t = "null"
                          THEN Did(<<>>, <<>>, TRUE)
                          ELSE CallFn(error_cb,
                                      IF response.t = "obj"
                                      THEN Member(response.o, "error")
                                      ELSE Undefined))
  IN IF try.thrown
     THEN Then(try, CallFn(error_cb, JObj([error |-> responseText])))
     ELSE try

\* error of endBatch (lines 240-242).
BatchError(jqXHR, error_cb) ==
  IF IsFunction(error_cb) THEN Did(<<Invocation(error_cb, jqXHR)>>, <<>>, FALSE)
  ELSE Did(<<>>, <<>>, FALSE)

Remove(seq, i) == SubSeq(seq, 1, i - 1) \o SubSeq(seq, i + 1, Len(seq))

\* The exchange at position i ends; did is what its handler did.
Completed(i, op, arg, did) ==
  /\ ajax' = Remove(ajax, i)
  /\ cb_count' = Counted(cb_count, did.invoked)
  /\ last' = Ran(op, ajax[i].c, arg, did.invoked, did.logged, <<>>, did.thrown)
  /\ UNCHANGED <<clients, options, window, current_id, batch, ws_socket,
                 ws_callbacks>>

\* The server answers the exchange of a call with the body data.
AjaxCallSuccess(i, data) ==
  /\ i \in 1..Len(ajax)
  /\ ajax[i].type = "call"
  /\ Completed(i, "success", data,
               CallSuccess(data, ajax[i].success_cb, ajax[i].error_cb))

\* The exchange of a call fails with the body responseText.
AjaxCallError(i, responseText) ==
  /\ i \in 1..Len(ajax)
  /\ ajax[i].type = "call"
  /\ Completed(i, "error", responseText,
               CallError(responseText, ajax[i].error_cb, window.console))

\* The exchange of a notify ends: no callback was given (lines 165-171).
AjaxNotifyDone(i) ==
  /\ i \in 1..Len(ajax)
  /\ ajax[i].type = "notify"
  /\ Completed(i, "done", Undefined, Did(<<>>, <<>>, FALSE))

\* The server answers a batch with the array result.
AjaxBatchSuccess(i, result) ==
  /\ i \in 1..Len(ajax)
  /\ ajax[i].type = "batch"
  /\ Completed(i, "batchSuccess", result,
               BatchCb(result, ajax[i].handlers, ajax[i].all_done_cb,
                       window.console))

\* The exchange of a batch fails.
AjaxBatchError(i, jqXHR) ==
  /\ i \in 1..Len(ajax)
  /\ ajax[i].type = "batch"
  /\ Completed(i, "batchError", jqXHR, BatchError(jqXHR, ajax[i].error_cb))

\* ----------------------------------------------------------- _wsOnMessage
\* What _wsOnMessage leaves: _ws_callbacks, the continuations invoked, and
\* the events handed to options.onmessage.
Routed(cbs, invoked, forwarded) ==
  [callbacks |-> cbs, invoked |-> invoked, forwarded |-> forwarded]

\* The data of the event handed on in place of the event.
Fallback_Data(cbs, onmessage, event) ==
  Routed(cbs, <<>>, IF IsFunction(onmessage) THEN <<event.data>> ELSE <<>>)

\* Lines 381-384.
Fallback(cbs, onmessage, event) ==
  Routed(cbs, <<>>, IF IsFunction(onmessage) THEN <<event>> ELSE <<>>)

\* if (x): null and undefined are not; objects and functions are.
Truthy(v) == v # Undefined /\ v # JNull

\* The whole registry emptied.
Consume_All(cbs, key) == EmptyObj

\* The entry left in place.
Consume_Kept(cbs, key) == cbs

\* delete this._ws_callbacks[response.id] (lines 355, 368).
Consume(cbs, key) == Without(cbs, key)

RECURSIVE WsOnMessage(_, _, _, _)

\* Lines 351-359 and 364-372: take the callback, delete the entry, run the
\* callback.  A callback that is no function throws inside the try block
\* and the event falls to the fallback.  The continuation itself may hand
\* the same event to this.wsOnMessage again (depth > 0).
Resolve(cbs, onmessage, event, key, name, arg, depth) ==
  LET cb == Member(Get(cbs, key), name)
      left == Consume(cbs, key)
  IN IF ~IsFunction(cb) THEN Fallback(left, onmessage, event)
     ELSE LET inner == IF depth > 0
                       THEN WsOnMessage(left, onmessage, event, depth - 1)
                       ELSE Routed(left, <<>>, <<>>)
          IN Routed(inner.callbacks, <<Invocation(cb, arg)>> \o inner.invoked,
                    inner.forwarded)

\* Lines 350-373, for a response object marked "2.0".
Route(cbs, onmessage, event, response, depth) ==
  LET key == PropertyKey(Member(response, "id"))
  IN IF In("result", response) /\ Truthy(Get(cbs, key))
     THEN Resolve(cbs, onmessage, event, key, "success_cb",
                  Member(response, "result"), depth)
     ELSE IF In("error", response) /\ Truthy(Get(cbs, key))
          THEN Resolve(cbs, onmessage, event, key, "error_cb",
                       Member(response, "error"), depth)
          ELSE Fallback(cbs, onmessage, event)

\* _wsOnMessage (lines 336-385).  typeof null is 'object' and `in` throws
\* on it; the exception is caught like that of the parse.
WsOnMessage(cbs, onmessage, event, depth) ==
  IF ParseFails(event.data) THEN Fallback(cbs, onmessage, event)
  ELSE LET response == ParseJSON(event.data)
       IN IF response.t = "obj" /\ In("jsonrpc", response.o)
             /\ Member(response.o, "jsonrpc") = JStr("2.0")
          THEN Route(cbs, onmessage, event, response.o, depth)
          ELSE Fallback(cbs, onmessage, event)

\* The socket of instance c delivers event.
WsMessage(c, event, depth) ==
  /\ c \in clients
  /\ ws_socket[c] # JNull
  /\ ws_socket[c].readyState \in {1, 2}
  /\ ws_socket[c].onmessage = WsOnMessageCb(c)
  /\ LET did == WsOnMessage(ws_callbacks, options[c].onmessage, event, depth)
     IN /\ ws_callbacks' = did.callbacks
        /\ cb_count' = Counted(cb_count, did.invoked)
        /\ last' = Ran("message", c, event, did.invoked, <<>>, did.forwarded,
                       FALSE)
  /\ UNCHANGED <<clients, options, window, current_id, batch, ws_socket,
                 ajax>>

\* The socket of instance c opens; its onopen handler, if bound, sends.
SocketOpen(c) ==
  /\ c \in clients
  /\ ws_socket[c] # JNull
  /\ ws_socket[c].readyState = 0
  /\ ws_socket' =
       [ws_socket EXCEPT ![c] =
          [@ EXCEPT !.readyState = 1,
                    !.sent = IF ws_socket[c].onopen = JNull THEN @
                             ELSE Append(@, ws_socket[c].onopen.send)]]
  /\ last' = Ran("open", c, Undefined, <<>>, <<>>, <<>>, FALSE)
  /\ UNCHANGED <<clients, options, window, current_id, batch, ws_callbacks,
                 ajax, cb_count>>

\* The socket of instance c starts closing, or is closed.
SocketClose(c, readyState) ==
  /\ c \in clients
  /\ ws_socket[c] # JNull
  /\ readyState \in {2, 3}
  /\ ws_socket[c].readyState < readyState
  /\ ws_socket' = [ws_socket EXCEPT ![c] = [@ EXCEPT !.readyState = readyState]]
  /\ last' = Ran("close", c, Undefined, <<>>, <<>>, <<>>, FALSE)
  /\ UNCHANGED <<clients, options, window, current_id, batch, ws_callbacks,
                 ajax, cb_count>>

\* ------------------------------------------------------------- the inputs
\* The callbacks a caller may pass to call number n of instance c.
Callbacks(c, n) ==
  {<<Fn(c, n, "success"), Fn(c, n, "error")>>,
   <<Fn(c, n, "success"), Undefined>>,
   <<Undefined, Undefined>>}

\* The callbacks a caller may pass to endBatch: both, or none.
AllDoneFn(c) == [t |-> "fn", c |-> c, id |-> 0, k |-> "all_done"]
BatchErrorFn(c) == [t |-> "fn", c |-> c, id |-> 0, k |-> "batch_error"]
BatchCallbacks(c) == {<<AllDoneFn(c), BatchErrorFn(c)>>, <<Undefined, Undefined>>}

\* Response objects, marked "2.0": with a result or an error, and an id.
Result(id, v) == [jsonrpc |-> JStr("2.0"), id |-> id, result |-> JStr(v)]
Error(id, e) == [jsonrpc |-> JStr("2.0"), id |-> id, error |-> JStr(e)]

\* The ids a response may carry: null, an inherited name, an array whose
\* string is that of an id, an id issued or not.
ResponseIds ==
  {JNull, JStr("constructor"), JArr(<<JNum(1)>>)}
    \cup {JNum(n) : n \in 1..MaxId + 1}

\* The responses a socket may deliver; also some with no id, with both a
\* result and an error, and with neither.
Responses ==
  {Result(id, "A") : id \in ResponseIds} \cup {Error(id, "E") : id \in ResponseIds}
    \cup {Result(JNum(1), "B"),
          [jsonrpc |-> JStr("2.0"), result |-> JStr("A")],
          [jsonrpc |-> JStr("2.0"), error |-> JStr("E")],
          [jsonrpc |-> JStr("2.0"), id |-> JNum(1)],
          [jsonrpc |-> JStr("2.0"), id |-> JNum(1), result |-> JStr("A"),
           error |-> JStr("E")]}

\* What a socket may deliver: no JSON, JSON that is no object, an object
\* that is not marked "2.0", or a response.
Events ==
  {[data |-> NotJSON], [data |-> [json |-> JNull]], [data |-> [json |-> JNum(7)]],
   [data |-> [json |-> JArr(<<>>)]],
   [data |-> [json |-> JObj([id |-> JNum(1), result |-> JStr("A")])]],
   [data |-> [json |-> JObj([jsonrpc |-> JStr("1.0"), id |-> JNum(1),
                             result |-> JStr("A")])]]}
    \cup {[data |-> [json |-> JObj(r)]] : r \in Responses}

\* The bodies a server may answer a single call with.
CallBodies ==
  {Result(JNum(1), "A"), Error(JNum(1), "E"), Error(JNull, "E"),
   [jsonrpc |-> JStr("2.0"), id |-> JNum(1)]}

\* The bodies of a failed exchange.
ErrorBodies ==
  {NotJSON, [json |-> JNull], [json |-> JObj([error |-> JStr("E")])],
   [json |-> JObj([result |-> JStr("A")])]}

\* The elements of the array a server may answer a batch with, and the
\* arrays.
BatchResponses ==
  {Result(JNum(1), "A"), Result(JNum(2), "B"), Result(JNum(MaxId + 1), "A"),
   Error(JNum(1), "E"), Error(JNull, "E"), Error(JNum(MaxId + 1), "E")}
BatchResults ==
  UNION {[1..n -> BatchResponses] : n \in 0..MaxResp}

Next ==
  \/ \E c \in Clients, m \in Methods :
       \E cbs \in Callbacks(c, current_id[c]) : Call(c, m, cbs[1], cbs[2])
  \/ \E c \in Clients, m \in Methods : Notify(c, m)
  \/ \E c \in Clients : StartBatch(c)
  \/ \E c \in Clients :
       \E cbs \in BatchCallbacks(c) : EndBatch(c, cbs[1], cbs[2])
  \/ \E i \in 1..MaxAjax, data \in CallBodies : AjaxCallSuccess(i, data)
  \/ \E i \in 1..MaxAjax, text \in ErrorBodies : AjaxCallError(i, text)
  \/ \E i \in 1..MaxAjax : AjaxNotifyDone(i)
  \/ \E i \in 1..MaxAjax, result \in BatchResults : AjaxBatchSuccess(i, result)
  \/ \E i \in 1..MaxAjax, text \in ErrorBodies : AjaxBatchError(i, text)
  \/ \E c \in Clients, event \in Events, depth \in 0..MaxReenter :
       WsMessage(c, event, depth)
  \/ \E c \in Clients : SocketOpen(c)
  \/ \E c \in Clients, rs \in {2, 3} : SocketClose(c, rs)

Spec == Init /\ [][Next]_vars

\* ================================================================ claims
\* Instance c has a persistent transport: getSocket returns a socket.
OnSocketPath(c) == options[c].socketUrl # JNull /\ window.WebSocket

\* The response object an event carries, when it carries one marked "2.0".
IsResponse(event) ==
  /\ ~ParseFails(event.data)
  /\ ParseJSON(event.data).t = "obj"
  /\ Member(ParseJSON(event.data).o, "jsonrpc") = JStr("2.0")
ResponseOf(event) == ParseJSON(event.data).o

\* The key of the registry a response looks under.
KeyOf(response) == PropertyKey(Member(response, "id"))

\* The continuation a response is for, and the value it carries: the
\* success continuation for one with a result, else the error continuation.
KindOf(response) == IF "result" \in DOMAIN response THEN "success" ELSE "error"
ValueOf(response) ==
  IF "result" \in DOMAIN response THEN response.result ELSE Member(response, "error")

\* C1: on the socket path, whatever calls are outstanding and in whatever
\* order the responses arrive, a response with id n invokes only the
\* continuation passed to the call that was issued id n (success for a
\* result, error for an error) with the value of the response; and when
\* that call is pending with that continuation, it is invoked.  The id of
\* a response is that of a call when the registry looks both under the
\* same name.
C1_Step ==
  last'.op = "message" =>
    /\ \A i \in 1..Len(last'.invoked) :
         /\ IsResponse(last'.arg)
         /\ \E n \in 1..MaxId :
              /\ KeyOf(ResponseOf(last'.arg)) = ToString(n)
              /\ last'.invoked[i] =
                   Invocation(Fn(last'.c, n, KindOf(ResponseOf(last'.arg))),
                              ValueOf(ResponseOf(last'.arg)))
    /\ (/\ IsResponse(last'.arg)
        /\ DOMAIN ResponseOf(last'.arg) \cap {"result", "error"} # {}
        /\ KeyOf(ResponseOf(last'.arg)) \in DOMAIN ws_callbacks
        /\ IsFunction(ws_callbacks[KeyOf(ResponseOf(last'.arg))]
                         [KindOf(ResponseOf(last'.arg)) \o "_cb"]))
       => /\ last'.invoked # <<>>
          /\ last'.invoked[1].cb =
               ws_callbacks[KeyOf(ResponseOf(last'.arg))]
                 [KindOf(ResponseOf(last'.arg)) \o "_cb"]
C1_Routing == [][C1_Step]_vars

\* C1 witness: with calls 1 and 2 outstanding at once, the response to 2
\* has resolved call 2 and now the response to 1 resolves call 1.
C1_Witness ==
  /\ last.op = "message"
  /\ last.invoked = <<Invocation(Fn(1, 1, "success"), JStr("B"))>>
  /\ cb_count[Fn(1, 2, "error")] = 1

\* C2: the ids in the requests built by call are 1, 2, 3, ... in the
\* order of the calls of an instance, whatever else is invoked in between
\* and whichever way the request goes; notify builds a request with no id
\* and leaves the counter as it is, as does every other operation.
C2_Step ==
  /\ last'.op = "call" =>
       /\ Member(last'.arg, "id") = JNum(current_id[last'.c])
       /\ current_id' = [current_id EXCEPT ![last'.c] = @ + 1]
  /\ last'.op = "notify" =>
       /\ "id" \notin DOMAIN last'.arg
       /\ current_id' = current_id
  /\ last'.op \notin {"call", "notify"} => current_id' = current_id
C2_Ids == (\A c \in Clients : current_id[c] = 1) /\ [][C2_Step]_vars

\* C2 witness: call, startBatch, notify, call: the second call is built
\* with id 2 behind the notify, which has none.
C2_Witness ==
  /\ last.op = "call"
  /\ last.arg.id = JNum(2)
  /\ batch[1] # JNull
  /\ Len(batch[1].v) = 2
  /\ "id" \notin DOMAIN batch[1].v[1].request
  /\ batch[1].v[2].request = last.arg

\* C3: on the socket path at most one of the two continuations of a call
\* is ever invoked, and at most once: an entry of the registry is gone
\* once its continuation has run, also for a response that arrives from
\* inside the continuation.
C3_AtMostOnce ==
  /\ \A c \in clients : OnSocketPath(c) =>
       \A n \in 1..MaxId :
         cb_count[Fn(c, n, "success")] + cb_count[Fn(c, n, "error")] <= 1
  /\ \A key \in DOMAIN ws_callbacks :
       /\ cb_count[ws_callbacks[key].success_cb] = 0
       /\ IsFunction(ws_callbacks[key].error_cb) =>
            cb_count[ws_callbacks[key].error_cb] = 0
  /\ last.op = "message" => Len(last.invoked) <= 1

\* C3 witness: the continuation of call 1 ran and handed the same event
\* to the router again; the second delivery found no entry and fell to the
\* external handler.
C3_Witness ==
  /\ last.op = "message"
  /\ Len(last.invoked) = 1
  /\ last.forwarded = <<last.arg>>
  /\ cb_count[last.invoked[1].cb] = 1

\* C4: a response marked "2.0" whose id is null or has no entry in the
\* registry invokes no continuation, leaves the registry as it is and
\* raises nothing.
C4_Step ==
  (/\ last'.op = "message"
   /\ IsResponse(last'.arg)
   /\ \/ Member(ResponseOf(last'.arg), "id") = JNull
      \/ KeyOf(ResponseOf(last'.arg)) \notin DOMAIN ws_callbacks)
  => /\ last'.invoked = <<>>
     /\ ws_callbacks' = ws_callbacks
     /\ cb_count' = cb_count
     /\ ~last'.thrown
C4_Unknown == [][C4_Step]_vars

\* C4 witness: with call 1 pending, an error response with a null id has
\* been handled.
C4_Witness ==
  /\ last.op = "message"
  /\ IsResponse(last.arg)
  /\ ResponseOf(last.arg) = Error(JNull, "E")
  /\ "1" \in DOMAIN ws_callbacks
  /\ last.invoked = <<>>

\* C5: notify on the socket path adds no entry to the registry and invokes
\* nothing; the registry holds only ids issued to calls, and a message
\* invokes only continuations that were in the registry, so none on account
\* of a notify.
C5_Step ==
  /\ last'.op = "notify" =>
       /\ ws_callbacks' = ws_callbacks
       /\ cb_count' = cb_count
       /\ last'.invoked = <<>>
  /\ last'.op = "message" =>
       \A i \in 1..Len(last'.invoked) :
         \E key \in DOMAIN ws_callbacks :
           last'.invoked[i].cb \in
             {ws_callbacks[key].success_cb, ws_callbacks[key].error_cb}
  /\ \A key \in DOMAIN ws_callbacks' :
       \E c \in clients : \E n \in 1..current_id'[c] - 1 : key = ToString(n)
C5_Notify == [][C5_Step]_vars

\* C5 witness: only notifies were made, one was sent over the open socket,
\* and a response with no id came back: nothing was invoked.
C5_Witness ==
  /\ last.op = "message"
  /\ IsResponse(last.arg)
  /\ "id" \notin DOMAIN ResponseOf(last.arg)
  /\ current_id[1] = 1
  /\ ws_socket[1] # JNull
  /\ ws_socket[1].sent # <<>>
  /\ last.invoked = <<>>
  /\ ws_callbacks = EmptyObj

\* The exchange whose handler ran in this step.
Ended == ajax[CHOOSE i \in 1..Len(ajax) : ajax' = Remove(ajax, i)]

\* This step is the arrival of the answer to a batch that was posted to
\* the ajaxUrl of its instance.
BatchAnswered ==
  last'.op = "batchSuccess" /\ options[last'.c].ajaxUrl # JNull

\* How often a handler run invoked cb with arg.
Times(invoked, cb, arg) ==
  Cardinality({j \in 1..Len(invoked) : invoked[j] = Invocation(cb, arg)})

\* The id of element i occurs once in the array.
Once(result, i) ==
  \A j \in 1..Len(result) : j # i => KeyOf(result[j]) # KeyOf(result[i])

\* Element i of the array answers, with a result, a call of the batch that
\* passed a success continuation.
Answers(result, i, handlers) ==
  /\ "result" \in DOMAIN result[i]
  /\ "error" \notin DOMAIN result[i]
  /\ KeyOf(result[i]) \in DOMAIN handlers
  /\ IsFunction(handlers[KeyOf(result[i])].success_cb)

\* C6: when the answer to a batch arrives, every element with a result
\* whose id is that of a call of the batch has the success continuation of
\* that call invoked exactly once, with the result of the element, whatever
\* the order of the elements.  Stated for the arrays that hold nothing but
\* such elements, one for an id.
C6_Step ==
  (/\ BatchAnswered
   /\ \A i \in 1..Len(last'.arg) :
        Answers(last'.arg, i, Ended.handlers) /\ Once(last'.arg, i))
  => \A i \in 1..Len(last'.arg) :
       Times(last'.invoked, Ended.handlers[KeyOf(last'.arg[i])].success_cb,
             last'.arg[i].result) = 1
C6_BatchResults == [][C6_Step]_vars

\* C7: an element with an error whose id is in the handlers of the batch
\* has the error continuation of that call invoked with the error; one
\* whose id is null or not in the handlers invokes nothing; and an array of
\* such elements raises nothing.
C7_Step ==
  BatchAnswered =>
    /\ \A i \in 1..Len(last'.arg) :
         (/\ "error" \in DOMAIN last'.arg[i]
          /\ KeyOf(last'.arg[i]) \in DOMAIN Ended.handlers
          /\ IsFunction(Ended.handlers[KeyOf(last'.arg[i])].error_cb))
         => Times(last'.invoked, Ended.handlers[KeyOf(last'.arg[i])].error_cb,
                  last'.arg[i].error) >= 1
    /\ (\A i \in 1..Len(last'.arg) :
          /\ "error" \in DOMAIN last'.arg[i]
          /\ KeyOf(last'.arg[i]) \notin DOMAIN Ended.handlers)
       => /\ ~last'.thrown
          /\ \A j \in 1..Len(last'.invoked) :
               last'.invoked[j].cb = Ended.all_done_cb
C7_BatchErrors == [][C7_Step]_vars

\* C8: when the answer to a batch arrives and endBatch was given a
\* completion callback, the callback is invoked exactly once, with the
\* whole array, after the elements, whatever the array holds.
C8_Step ==
  (BatchAnswered /\ IsFunction(Ended.all_done_cb)) =>
    /\ Times(last'.invoked, Ended.all_done_cb, last'.arg) = 1
    /\ last'.invoked[Len(last'.invoked)].cb = Ended.all_done_cb
C8_AllDone == [][C8_Step]_vars

\* C9: with a socket available, call and notify made while a batch is open
\* hand their request to the socket (sent when it is open, bound to its
\* onopen while it connects), leave the batch as it is and post nothing;
\* the batch of such an instance stays empty and endBatch sends nothing.
C9_Step ==
  /\ (/\ last'.op \in {"call", "notify"}
      /\ OnSocketPath(last'.c)
      /\ batch[last'.c] # JNull)
     => /\ batch' = batch
        /\ ajax' = ajax
        /\ ~last'.thrown
        /\ \/ /\ ws_socket'[last'.c].readyState = 1
              /\ ws_socket'[last'.c].sent =
                   Append(ws_socket[last'.c].sent, ToJSON(last'.arg))
           \/ /\ ws_socket'[last'.c].readyState = 0
              /\ ws_socket'[last'.c].onopen = SendOnOpen(ToJSON(last'.arg))
  /\ \A c \in clients : OnSocketPath(c) =>
       /\ batch'[c] \in {JNull, JArr(<<>>)}
       /\ \A i \in 1..Len(ajax') : ajax'[i].c # c
C9_Bypass == [][C9_Step]_vars

\* C9 witness: a call went over the open socket while the batch was open,
\* and the batch is still empty.
C9_Witness ==
  /\ last.op = "call"
  /\ OnSocketPath(1)
  /\ batch[1] = JArr(<<>>)
  /\ ws_socket[1].readyState = 1
  /\ ws_socket[1].sent # <<>>
  /\ ws_socket[1].sent[Len(ws_socket[1].sent)] = ToJSON(last.arg)

\* The continuations of the calls a batch holds.
Held(b) ==
  {b[i].success_cb : i \in {j \in 1..Len(b) : "success_cb" \in DOMAIN b[j]}}
    \cup {b[i].error_cb : i \in {j \in 1..Len(b) : "error_cb" \in DOMAIN b[j]}}

\* C10: with no socket and a batch open, call and notify put their request
\* at the end of the batch, post nothing and invoke nothing; no continuation
\* of a call the batch holds has run; and endBatch on a batch that holds
\* requests posts one exchange, whose body is the array of the requests in
\* the order they were put.
C10_Step ==
  /\ (/\ last'.op \in {"call", "notify"}
      /\ ~OnSocketPath(last'.c)
      /\ batch[last'.c] # JNull)
     => /\ Len(batch'[last'.c].v) = Len(batch[last'.c].v) + 1
        /\ SubSeq(batch'[last'.c].v, 1, Len(batch[last'.c].v)) = batch[last'.c].v
        /\ batch'[last'.c].v[Len(batch'[last'.c].v)].request = last'.arg
        /\ ajax' = ajax
        /\ ws_socket' = ws_socket
        /\ cb_count' = cb_count
        /\ last'.invoked = <<>>
        /\ ~last'.thrown
  /\ \A c \in clients : batch'[c] # JNull =>
       \A cb \in Held(batch'[c].v) \cap Tokens : cb_count'[cb] = 0
  /\ (/\ last'.op = "endBatch"
      /\ ~OnSocketPath(last'.c)
      /\ batch[last'.c] # JNull
      /\ batch[last'.c].v # <<>>)
     => /\ Len(ajax') = Len(ajax) + 1
        /\ SubSeq(ajax', 1, Len(ajax)) = ajax
        /\ ajax'[Len(ajax')].type = "batch"
        /\ ajax'[Len(ajax')].data =
             [json |-> [i \in 1..Len(batch[last'.c].v) |->
                          Members(batch[last'.c].v[i].request)]]
        /\ batch'[last'.c] = JNull
        /\ last'.invoked = <<>>
C10_Batching == [][C10_Step]_vars

\* C10 witness: a batch of a notify and then a call has been posted by
\* endBatch as one exchange, in that order.
C10_Witness ==
  /\ last.op = "endBatch"
  /\ Len(ajax) = 1
  /\ ajax[1].type = "batch"
  /\ Len(ajax[1].data.json) = 2
  /\ Len(ajax[1].data.json[1]) = 3
  /\ Len(ajax[1].data.json[2]) = 4
  /\ batch[1] = JNull

\* C11: endBatch with no batch open changes nothing, posts nothing, sends
\* nothing and invokes nothing; endBatch on an open batch that holds no
\* request closes the batch and likewise posts, sends and invokes nothing.
C11_Step ==
  (/\ last'.op = "endBatch"
   /\ batch[last'.c] = JNull \/ batch[last'.c] = JArr(<<>>))
  => /\ batch' = [batch EXCEPT ![last'.c] = JNull]
     /\ batch[last'.c] = JNull => batch' = batch
     /\ ajax' = ajax
     /\ ws_socket' = ws_socket
     /\ ws_callbacks' = ws_callbacks
     /\ current_id' = current_id
     /\ cb_count' = cb_count
     /\ last'.invoked = <<>>
     /\ ~last'.thrown
C11_EndBatchNoop == [][C11_Step]_vars

\* C11 witness: endBatch has closed an open, empty batch of an instance
\* that posts over ajax, and nothing is in flight.
C11_Witness ==
  /\ last.op = "endBatch"
  /\ last.arg = JArr(<<>>)
  /\ ~OnSocketPath(1)
  /\ options[1].ajaxUrl # JNull
  /\ batch[1] = JNull
  /\ ajax = <<>>
  /\ current_id[1] = 1

\* C12: startBatch while a batch is open leaves the batch, with the entries
\* it holds in their order, and everything else as it is, so what follows
\* cannot tell it from a single startBatch; startBatch with no batch open
\* opens an empty one.
C12_Step ==
  last'.op = "startBatch" =>
    /\ batch[last'.c] # JNull => batch' = batch
    /\ batch[last'.c] = JNull => batch' = [batch EXCEPT ![last'.c] = JArr(<<>>)]
    /\ UNCHANGED <<clients, options, window, current_id, ws_socket,
                   ws_callbacks, ajax, cb_count>>
C12_Idempotent == [][C12_Step]_vars

\* C12 witness: startBatch was called on a batch that held a call, and the
\* batch still holds it.
C12_Witness ==
  /\ last.op = "startBatch"
  /\ batch[1] # JNull
  /\ Len(batch[1].v) >= 1
  /\ In("id", batch[1].v[1].request)

\* C13: call and notify of an instance for which getSocket returns no
\* socket and whose ajaxUrl is null throw to the caller, with a batch open
\* or without, and then enqueue nothing, post nothing, send nothing and
\* invoke nothing.
C13_Step ==
  (/\ last'.op \in {"call", "notify"}
   /\ ~OnSocketPath(last'.c)
   /\ options[last'.c].ajaxUrl = JNull)
  => /\ last'.thrown
     /\ batch' = batch
     /\ ajax' = ajax
     /\ ws_socket' = ws_socket
     /\ ws_callbacks' = ws_callbacks
     /\ cb_count' = cb_count
     /\ last'.invoked = <<>>
C13_ConfigError == [][C13_Step]_vars

\* The error a failed exchange hands to the error continuation: the error
\* member of the body when the body is an object that has one, else the raw
\* body wrapped.
Extracted(responseText) ==
  IF /\ ~ParseFails(responseText)
     /\ ParseJSON(responseText).t = "obj"
     /\ "error" \in DOMAIN ParseJSON(responseText).o
  THEN ParseJSON(responseText).o.error
  ELSE JObj([error |-> responseText])

\* C14: when the exchange of a single call that passed both continuations
\* ends, exactly one of them is invoked, once: on an answer whose body has
\* an error, the error continuation with that error; on an answer whose
\* body has none, the success continuation with the result; on a failed
\* exchange, the error continuation with the error extracted from the body
\* or else the raw body wrapped.
C14_Step ==
  (/\ last'.op \in {"success", "error"}
   /\ IsFunction(Ended.success_cb)
   /\ IsFunction(Ended.error_cb))
  => last'.invoked =
       << IF last'.op = "error"
          THEN Invocation(Ended.error_cb, Extracted(last'.arg))
          ELSE IF "error" \in DOMAIN last'.arg
               THEN Invocation(Ended.error_cb, last'.arg.error)
               ELSE Invocation(Ended.success_cb, Member(last'.arg, "result")) >>
C14_ExactlyOne == [][C14_Step]_vars

\* C15: a message is handed to options.onmessage only when its data is no
\* JSON or the value parsed is no object marked "2.0"; a message marked
\* "2.0" that resolves no pending call (its id is null, unknown, or it has
\* neither a result nor an error) is not handed to options.onmessage.
\* Stated of the deliveries that invoke no continuation, so that what a
\* continuation does with the event is left out.
C15_Step ==
  (last'.op = "message" /\ last'.invoked = <<>>) =>
    /\ last'.forwarded # <<>> => ~IsResponse(last'.arg)
    /\ IsResponse(last'.arg) => last'.forwarded = <<>>
C15_HandlerOnly == [][C15_Step]_vars

\* C16: a message whose data is no JSON is handed, as it came and once, to
\* options.onmessage when that is a function, and to nothing when it is
\* not; no continuation is invoked, the registry is left as it is and no
\* exception leaves the handler.
C16_Step ==
  (last'.op = "message" /\ ParseFails(last'.arg.data)) =>
    /\ last'.forwarded = IF IsFunction(options[last'.c].onmessage)
                         THEN <<last'.arg>> ELSE <<>>
    /\ last'.invoked = <<>>
    /\ ws_callbacks' = ws_callbacks
    /\ cb_count' = cb_count
    /\ ~last'.thrown
C16_Malformed == [][C16_Step]_vars

\* C16 witness: with a call pending, a message that is no JSON has been
\* handed to options.onmessage and the call is still pending.
C16_Witness ==
  /\ last.op = "message"
  /\ last.arg = [data |-> NotJSON]
  /\ last.forwarded = <<last.arg>>
  /\ last.invoked = <<>>
  /\ "1" \in DOMAIN ws_callbacks

\* What a socket sends when it opens: the request its onopen holds.
WillSend(socket) ==
  IF socket = JNull \/ socket.readyState # 0 \/ socket.onopen = JNull THEN <<>>
  ELSE <<socket.onopen.send>>

\* C17: a call or notify made while the socket connects adds its request
\* to what the socket sends when it opens, behind the requests made before
\* it, none of which is lost or replaced; and when the socket opens, each
\* of them is sent, once.
C17_Step ==
  /\ (/\ last'.op \in {"call", "notify"}
      /\ OnSocketPath(last'.c)
      /\ ws_socket'[last'.c].readyState = 0)
     => WillSend(ws_socket'[last'.c]) =
          Append(WillSend(ws_socket[last'.c]), ToJSON(last'.arg))
  /\ last'.op = "open" =>
       /\ ws_socket'[last'.c].readyState = 1
       /\ ws_socket'[last'.c].sent =
            ws_socket[last'.c].sent \o WillSend(ws_socket[last'.c])
C17_Deferred == [][C17_Step]_vars

\* ------------------------------------------- two instances in one process
\* Two instances constructed with a socketUrl each, in a host that has
\* WebSocket: var a = new $.JsonRpcClient(...), b = new $.JsonRpcClient(...).
InitTwo ==
  /\ InitWith({1, 2})
  /\ window = Window(TRUE, TRUE)
  /\ \A c \in Clients : options[c] = SocketOnly

\* The responses the sockets of the two instances deliver.
EventsTwo ==
  {[data |-> [json |-> JObj(Result(JNum(n), "A"))]] : n \in 1..MaxId}

\* The runs of the two instances in which no socket has sent more than
\* MaxSentTwo requests.
BoundedTwo ==
  \A c \in Clients :
    ws_socket'[c] # JNull => Len(ws_socket'[c].sent) <= MaxSentTwo

\* The operations of the two instances and the events of their sockets.
NextTwo ==
  \/ \E c \in Clients, m \in Methods :
       /\ Call(c, m, Fn(c, current_id[c], "success"),
               Fn(c, current_id[c], "error"))
       /\ BoundedTwo
  \/ \E c \in Clients, m \in Methods : Notify(c, m) /\ BoundedTwo
  \/ \E c \in Clients : StartBatch(c)
  \/ \E c \in Clients : EndBatch(c, Undefined, Undefined)
  \/ \E c \in Clients, event \in EventsTwo : WsMessage(c, event, 0)
  \/ \E c \in Clients : SocketOpen(c) /\ BoundedTwo
  \/ \E c \in Clients : SocketClose(c, 3)

SpecTwo == InitTwo /\ [][NextTwo]_vars

\* The instance whose call registered an entry of the registry.
Owner(entry) == entry.success_cb.c

\* C18: with two instances, an operation or event of one leaves the id
\* counter, the batch and the socket of the other as they are, and leaves
\* every entry of the registry that a call of the other registered; a
\* response that arrives on the socket of one invokes and removes only
\* what a call of that instance registered.
C18_Step ==
  last'.c \in Clients =>
    /\ \A d \in Clients \ {last'.c} :
         /\ current_id'[d] = current_id[d]
         /\ batch'[d] = batch[d]
         /\ ws_socket'[d] = ws_socket[d]
         /\ \A key \in DOMAIN ws_callbacks :
              Owner(ws_callbacks[key]) = d =>
                /\ key \in DOMAIN ws_callbacks'
                /\ ws_callbacks'[key] = ws_callbacks[key]
    /\ \A i \in 1..Len(last'.invoked) : last'.invoked[i].cb.c = last'.c
C18_Isolation == [][C18_Step]_vars

\* The ids of the requests in the body of an exchange (an array of requests
\* for a batch, one request otherwise), and of the requests an open batch
\* holds.
IdsIn(members) ==
  {members[j][2] : j \in {k \in 1..Len(members) : members[k][1] = "id"}}
SentIds(e) ==
  IF e.type = "batch"
  THEN UNION {IdsIn(e.data.json[i]) : i \in 1..Len(e.data.json)}
  ELSE IdsIn(e.data.json)
HeldIds(b) ==
  {b[i].request.id : i \in {j \in 1..Len(b) : "id" \in DOMAIN b[j].request}}

\* C19: endBatch leaves no batch open, and what it posts is the requests
\* the batch held; a call, notify or startBatch made afterwards, while the
\* exchange is in flight or once it has ended, leaves the exchange as it
\* was posted and goes to no batch, to a new batch, or to an exchange of its
\* own; so no request of a call is both in an exchange and in an open
\* batch, and none is in two exchanges.
C19_Step ==
  /\ last'.op = "endBatch" =>
       /\ batch'[last'.c] = JNull
       /\ (batch[last'.c] # JNull /\ batch[last'.c].v # <<>>) =>
            /\ Len(ajax') = Len(ajax) + 1
            /\ Len(ajax'[Len(ajax')].data.json) = Len(batch[last'.c].v)
            /\ SentIds(ajax'[Len(ajax')]) = HeldIds(batch[last'.c].v)
  /\ last'.op \in {"call", "notify", "startBatch", "endBatch"} =>
       /\ Len(ajax') >= Len(ajax)
       /\ \A i \in 1..Len(ajax) : ajax'[i] = ajax[i]
  /\ (last'.op \in {"call", "notify"} /\ Len(ajax') > Len(ajax)) =>
       /\ ajax'[Len(ajax')].type = last'.op
       /\ ajax'[Len(ajax')].data = ToJSON(last'.arg)
  /\ \A i \in 1..Len(ajax') :
       /\ batch'[ajax'[i].c] # JNull =>
            SentIds(ajax'[i]) \cap HeldIds(batch'[ajax'[i].c].v) = {}
       /\ \A j \in 1..Len(ajax') :
            (j # i /\ ajax'[j].c = ajax'[i].c) =>
              SentIds(ajax'[i]) \cap SentIds(ajax'[j]) = {}
C19_Flush == [][C19_Step]_vars

\* C19 witness: the batch that held call 1 is in flight; startBatch was
\* called again and call 2 went to the new batch, not to the one posted.
C19_Witness ==
  /\ last.op = "call"
  /\ Len(ajax) = 1
  /\ ajax[1].type = "batch"
  /\ SentIds(ajax[1]) = {JNum(1)}
  /\ batch[1] # JNull
  /\ HeldIds(batch[1].v) = {JNum(2)}

\* The socket of instance c is live: held, and connecting or open.
Live(c) == ws_socket[c] # JNull /\ ws_socket[c].readyState <= 1

\* C20: call and notify of an instance that has a socketUrl, in a host
\* that has WebSocket, go on with the socket held when it is connecting or
\* open (its state, what it has sent and its onmessage are kept), and with
\* a new, connecting socket bound to this.wsOnMessage when none is held or
\* the one held is closing or closed; so the socket they use is connecting
\* or open.  Nothing else makes or replaces a socket, and the onmessage of
\* every socket is the wsOnMessage of its instance.
C20_Step ==
  /\ (last'.op \in {"call", "notify"} /\ OnSocketPath(last'.c)) =>
       /\ ws_socket'[last'.c] # JNull
       /\ ws_socket'[last'.c].readyState <= 1
       /\ Live(last'.c) =>
            /\ ws_socket'[last'.c].readyState = ws_socket[last'.c].readyState
            /\ ws_socket'[last'.c].onmessage = ws_socket[last'.c].onmessage
            /\ SubSeq(ws_socket'[last'.c].sent, 1, Len(ws_socket[last'.c].sent))
                 = ws_socket[last'.c].sent
       /\ ~Live(last'.c) =>
            ws_socket'[last'.c] =
              [NewWebSocket EXCEPT !.onmessage = WsOnMessageCb(last'.c),
                                   !.onopen = SendOnOpen(ToJSON(last'.arg))]
  /\ (last'.op \in {"call", "notify"} /\ ~OnSocketPath(last'.c)) =>
       ws_socket' = ws_socket
  /\ last'.op \notin {"call", "notify"} =>
       \A c \in Clients :
         /\ ws_socket[c] = JNull <=> ws_socket'[c] = JNull
         /\ ws_socket[c] # JNull =>
              /\ ws_socket'[c].onmessage = ws_socket[c].onmessage
              /\ ws_socket'[c].readyState >= ws_socket[c].readyState
              /\ Len(ws_socket'[c].sent) >= Len(ws_socket[c].sent)
  /\ \A c \in Clients :
       ws_socket'[c] # JNull => ws_socket'[c].onmessage = WsOnMessageCb(c)
C20_Selector == [][C20_Step]_vars

\* C20 witness: call 1 was answered over a socket that was open; that
\* socket has gone and call 2 has been given a new one, which connects.
C20_Witness ==
  /\ last.op = "call"
  /\ last.arg.id = JNum(2)
  /\ cb_count[Fn(1, 1, "success")] = 1
  /\ ws_socket[1] # JNull
  /\ ws_socket[1].readyState = 0
  /\ ws_socket[1].onmessage = WsOnMessageCb(1)

====
